---- MODULE Spec2Model ----
(***************************************************************************)
(* Model of the node-identity layer of taffy (src/src/node.rs): the        *)
(* instance and local id allocators, the Node <-> NodeId maps of a Taffy   *)
(* instance, and the structural operations on its forest.                  *)
(*                                                                         *)
(* NodeIds, child indexes and ids are the 0-based numbers of the code; a   *)
(* Vec is a TLA+ sequence, so the element the code writes v[i] is At(v, i) *)
(* = v[i + 1] here.  The forest (crate::forest) is not part of node.rs;    *)
(* its operations, Forest_*, follow the design document.  The payload of a *)
(* node record (style, measure, layout) is not represented: of a record    *)
(* only is_dirty is kept.                                                  *)
(*                                                                         *)
(* A panic (index out of bounds, missing map key, unwrap of None) aborts   *)
(* the process: ret becomes Panic and no operation is enabled afterwards.  *)
(***************************************************************************)
EXTENDS Integers, Sequences, FiniteSets, TLC

\* ---- bounds of the model ------------------------------------------------
MaxInstances == 2
MaxId == 3
MaxNodes == 3
MaxChildren == 2
MaxEdges == 2
IdBits == 3
DagNodes == 4
DagEdges == 4
MaxThreads == 3

VARIABLES INSTANCE_ALLOCATOR, taffy, op, ret, removed, thread

vars == <<INSTANCE_ALLOCATOR, taffy, op, ret, removed, thread>>

\* ---- values -------------------------------------------------------------
Ids == 0 .. (MaxId - 1)

Node == [instance : 0 .. (MaxInstances - 1), local : Ids]

\* The child lists over a set of handles, MaxChildren entries at most.
ChildListsOf(S) == UNION {[1 .. n -> S] : n \in 0 .. MaxChildren}

ChildLists == ChildListsOf(Node)

\* The handles that carry the id of instance T, live or not.
HandlesOf(T) == {n \in Node : n.instance = T.id}

ChildIndexes == 0 .. MaxChildren

Instances == 1 .. Len(taffy)

Threads == 1 .. MaxThreads

\* Result values: Ok(v), error::InvalidNode(node), the three variants of
\* error::InvalidChild, and the abort of the process.
Ok(v) == [tag |-> "Ok", val |-> v]

Unit == [tag |-> "()"]

InvalidNode(node) == [tag |-> "InvalidNode", node |-> node]

InvalidParentNode(node) == [tag |-> "InvalidParentNode", node |-> node]

InvalidChildNode(node) == [tag |-> "InvalidChildNode", node |-> node]

ChildIndexOutOfBounds(parent, child_index, child_count) ==
    [tag |-> "ChildIndexOutOfBounds", parent |-> parent,
     child_index |-> child_index, child_count |-> child_count]

Panic == [tag |-> "Panic"]

IsOk(r) == r.tag = "Ok"

\* ---- Vec and Map --------------------------------------------------------
At(v, i) == v[i + 1]

Range(s) == {s[k] : k \in DOMAIN s}

EmptyMap == [x \in {} |-> 0]

MapInsert(m, k, v) == [x \in (DOMAIN m) \cup {k} |-> IF x = k THEN v ELSE m[x]]

MapRemove(m, k) == [x \in (DOMAIN m) \ {k} |-> m[x]]

\* Vec::retain(|p| *p != x)
Retain(s, x) == SelectSeq(s, LAMBDA p : p # x)

\* Vec::remove(index): the element leaves, the later ones shift down.
VecRemove(s, index) == SubSeq(s, 1, index) \o SubSeq(s, index + 2, Len(s))

\* Vec::swap_remove(index): the last element takes the place of the removed.
VecSwapRemove(s, index) ==
    IF index + 1 = Len(s) THEN SubSeq(s, 1, Len(s) - 1)
    ELSE [k \in 1 .. (Len(s) - 1) |-> IF k = index + 1 THEN s[Len(s)] ELSE s[k]]

\* The first position of x in s, 0-based; Len(s) when x does not occur.
RECURSIVE Position(_, _)
Position(s, x) ==
    IF s = <<>> THEN 0
    ELSE IF Head(s) = x THEN 0 ELSE 1 + Position(Tail(s), x)

\* The number of entries of all the lists of a list of lists.
RECURSIVE SumLen(_)
SumLen(lists) == IF lists = <<>> THEN 0 ELSE Len(Head(lists)) + SumLen(Tail(lists))

\* s without its first occurrence of x.
RemoveFirst(s, x) ==
    IF x \in Range(s) THEN VecRemove(s, Position(s, x)) ELSE s

\* ---- Allocator ----------------------------------------------------------
\* Allocator::new: last_id starts at 0.
Allocator_new == 0

\* allocate that loads last_id and does not add to it.
allocate_load(last_id) == [id |-> last_id, last_id |-> last_id]

\* Allocator::allocate: fetch_add(1) returns the old value of last_id and
\* wraps around on overflow; an Id is an unsigned integer of IdBits bits.
allocate(last_id) == [id |-> last_id, last_id |-> (last_id + 1) % (2 ^ IdBits)]

\* ---- Forest (crate::forest, after the design document) -------------------
\* A forest is three parallel vectors indexed by NodeId: the records, the
\* ordered child lists and the parent lists.
Forest_with_capacity == [nodes |-> <<>>, children |-> <<>>, parents |-> <<>>]

NodeData_new == [is_dirty |-> TRUE]

\* parents[child].push(node) for every child of the list, one push per
\* occurrence.
RECURSIVE PushParent(_, _, _)
PushParent(parents, children, node) ==
    IF children = <<>> THEN parents
    ELSE PushParent([parents EXCEPT ![Head(children) + 1] = Append(@, node)],
                    Tail(children), node)

\* The nodes reachable from the set seen along the lists (child lists or
\* parent lists); an index outside the arena has no list to follow.
RECURSIVE Reach(_, _)
Reach(lists, seen) ==
    LET nxt == seen \cup UNION {Range(lists[i + 1]) : i \in {j \in seen : j < Len(lists)}}
    IN  IF nxt = seen THEN seen ELSE Reach(lists, nxt)

\* The entries of a parent list that join the worklist: those not visited
\* yet, each once (visited.insert(p) is true once per node).
\* Unvisited that keeps every entry, seen before or not.
Unvisited_all(list, visited) == list

RECURSIVE Unvisited(_, _)
Unvisited(list, visited) ==
    IF list = <<>> THEN <<>>
    ELSE IF Head(list) \in visited THEN Unvisited(Tail(list), visited)
    ELSE <<Head(list)>> \o Unvisited(Tail(list), visited \cup {Head(list)})

\* The worklist of mark_dirty: the head of the worklist is processed and its
\* parents not visited yet join the worklist, until the worklist is empty.
\* order is the sequence of the nodes processed; done is FALSE when the
\* worklist is not empty after fuel turns.
RECURSIVE Worklist(_, _, _, _, _)
Worklist(parents, work, visited, order, fuel) ==
    IF work = <<>> THEN [done |-> TRUE, order |-> order]
    ELSE IF fuel = 0 THEN [done |-> FALSE, order |-> order]
    ELSE LET node == Head(work)
             new == IF node < Len(parents) THEN Unvisited(At(parents, node), visited)
                    ELSE <<>>
         IN  Worklist(parents, Tail(work) \o new, visited \cup Range(new),
                      Append(order, node), fuel - 1)

\* The run of mark_dirty from the node; more turns than there are nodes and
\* parent entries are not waited for.
Forest_mark_dirty_run(parents, node) ==
    Worklist(parents, <<node>>, {node}, <<>>, Len(parents) + SumLen(parents) + 1)

\* Forest::mark_dirty: flags the node and every ancestor reachable via the
\* parent relation, each once (worklist with a visited set).
Forest_mark_dirty(forest, node) ==
    LET stale == Range(Forest_mark_dirty_run(forest.parents, node).order)
    IN  [forest EXCEPT !.nodes =
            [i \in DOMAIN forest.nodes |->
                IF (i - 1) \in stale THEN [forest.nodes[i] EXCEPT !.is_dirty = TRUE]
                ELSE forest.nodes[i]]]

\* Forest::new_leaf: a record without children, dirty, in a new last slot.
Forest_new_leaf(forest) ==
    [id |-> Len(forest.nodes),
     forest |-> [nodes |-> Append(forest.nodes, NodeData_new),
                 children |-> Append(forest.children, <<>>),
                 parents |-> Append(forest.parents, <<>>)]]

\* Forest::new_with_children: the children in the given order, the new node
\* appended to each child's parent list, dirty.
Forest_new_with_children(forest, children) ==
    LET id == Len(forest.nodes)
    IN  [id |-> id,
         forest |-> [nodes |-> Append(forest.nodes, NodeData_new),
                     children |-> Append(forest.children, children),
                     parents |-> Append(PushParent(forest.parents, children, id), <<>>)]]

\* Forest::add_child: appends without detaching the existing children.
Forest_add_child(forest, node, child) ==
    Forest_mark_dirty(
        [forest EXCEPT !.parents[child + 1] = Append(@, node),
                       !.children[node + 1] = Append(@, child)],
        node)

\* Forest::clear: drops every record.
Forest_clear == Forest_with_capacity

\* Forest::remove_child_at_index: detaches the edge at the position and
\* returns the detached child.  A child index that is no slot of the arena
\* has no parent list: the access panics.
Forest_remove_child_at_index(forest, node, index) ==
    LET child == At(At(forest.children, node), index)
    IN  IF child >= Len(forest.nodes) THEN [panic |-> TRUE]
        ELSE [panic |-> FALSE,
              id |-> child,
              forest |-> Forest_mark_dirty(
                  [forest EXCEPT !.children[node + 1] = VecRemove(@, index),
                                 !.parents[child + 1] = RemoveFirst(@, node)],
                  node)]

\* Forest::remove_child: detaches the first edge to the child.  It returns a
\* NodeId, not an Option: a child that is not in the list is a panic.
Forest_remove_child(forest, node, child) ==
    IF child \notin Range(At(forest.children, node)) THEN [panic |-> TRUE]
    ELSE Forest_remove_child_at_index(forest, node, Position(At(forest.children, node), child))

\* In every list, the index from becomes the index to.
Reindex(lists, from, to) ==
    [i \in DOMAIN lists |-> [k \in DOMAIN lists[i] |-> IF lists[i][k] = from THEN to ELSE lists[i][k]]]

\* Forest::swap_remove: the record of the final slot moves into the slot of
\* the removed node (unless that was the final slot) and the arena shrinks
\* by one; Some(old final index) when a record moved.  The removed node
\* leaves the parent lists of its children, the moved record keeps its edges
\* under its new index; the removed node is not detached from the child
\* lists of its former parents and its children are not removed.
Forest_swap_remove(forest, node) ==
    LET last == Len(forest.nodes) - 1
        detached == [i \in DOMAIN forest.parents |-> Retain(forest.parents[i], node)]
        nodes == VecSwapRemove(forest.nodes, node)
        children == VecSwapRemove(forest.children, node)
        parents == VecSwapRemove(detached, node)
    IN  IF node = last
        THEN [moved |-> FALSE,
              forest |-> [nodes |-> nodes, children |-> children, parents |-> parents]]
        ELSE [moved |-> TRUE,
              new_id |-> last,
              forest |-> [nodes |-> nodes,
                          children |-> Reindex(children, last, node),
                          parents |-> Reindex(parents, last, node)]]

\* Forest::compute_layout: every node of the subtree rooted at the node gets
\* a fresh layout and is no longer dirty, the others are untouched.  A child
\* index that is no slot of the arena panics.
Forest_compute_layout(forest, node) ==
    LET subtree == Reach(forest.children, {node})
    IN  IF \E i \in subtree : i >= Len(forest.nodes) THEN [panic |-> TRUE]
        ELSE [panic |-> FALSE,
              forest |-> [forest EXCEPT !.nodes =
                  [i \in DOMAIN forest.nodes |->
                      IF (i - 1) \in subtree THEN [forest.nodes[i] EXCEPT !.is_dirty = FALSE]
                      ELSE forest.nodes[i]]]]

\* ---- Taffy ---------------------------------------------------------------
\* Every method is an operator from the instance (and the arguments) to the
\* instance afterwards, T, and the value returned, ret.

\* Taffy::with_capacity
with_capacity(id) ==
    [id |-> id,
     allocator |-> Allocator_new,
     nodes_to_ids |-> EmptyMap,
     ids_to_nodes |-> EmptyMap,
     forest |-> Forest_with_capacity]

\* allocate_node with the slot the node will take as its local id, in place
\* of a number from the allocator.
allocate_node_slot(T) ==
    [T |-> [T EXCEPT !.allocator = allocate(T.allocator).last_id],
     node |-> [instance |-> T.id, local |-> Len(T.forest.nodes)]]

\* Taffy::allocate_node
allocate_node(T) ==
    LET a == allocate(T.allocator)
    IN  [T |-> [T EXCEPT !.allocator = a.last_id],
         node |-> [instance |-> T.id, local |-> a.id]]

\* Taffy::add_node
add_node(T, node, id) ==
    [T EXCEPT !.nodes_to_ids = MapInsert(@, node, id),
              !.ids_to_nodes = MapInsert(@, id, node)]

\* find_node that compares the local id alone.
find_node_local(T, node) ==
    LET same == {h \in DOMAIN T.nodes_to_ids : h.local = node.local}
    IN  IF same # {} THEN Ok(T.nodes_to_ids[CHOOSE h \in same : TRUE])
        ELSE InvalidNode(node)

\* Taffy::find_node
find_node(T, node) ==
    IF node \in DOMAIN T.nodes_to_ids THEN Ok(T.nodes_to_ids[node])
    ELSE InvalidNode(node)

\* children.iter().map(|child| self.find_node(*child)).collect::<Result<..>>():
\* the NodeIds in order, or the error of the first child that does not resolve.
RECURSIVE find_nodes(_, _)
find_nodes(T, children) ==
    IF children = <<>> THEN Ok(<<>>)
    ELSE LET first == find_node(T, Head(children))
             rest == find_nodes(T, Tail(children))
         IN  IF ~IsOk(first) THEN first
             ELSE IF ~IsOk(rest) THEN rest
             ELSE Ok(<<first.val>> \o rest.val)

\* self.ids_to_nodes[&id]: a missing key panics.
node_of(T, id) ==
    IF id \in DOMAIN T.ids_to_nodes THEN Ok(T.ids_to_nodes[id]) ELSE Panic

\* Taffy::new_leaf
new_leaf_fn(T) ==
    LET a == allocate_node(T)
        f == Forest_new_leaf(a.T.forest)
    IN  [T |-> add_node([a.T EXCEPT !.forest = f.forest], a.node, f.id),
         ret |-> Ok(a.node)]

\* Taffy::new_with_children
new_with_children_fn(T, children) ==
    LET a == allocate_node(T)
        ids == find_nodes(a.T, children)
        f == Forest_new_with_children(a.T.forest, ids.val)
    IN  IF ~IsOk(ids) THEN [T |-> a.T, ret |-> ids]
        ELSE [T |-> add_node([a.T EXCEPT !.forest = f.forest], a.node, f.id),
              ret |-> Ok(a.node)]

\* clear that starts the local ids over, as a new instance would.
clear_fn_reset(T) ==
    [T |-> [T EXCEPT !.allocator = Allocator_new,
                     !.nodes_to_ids = EmptyMap,
                     !.ids_to_nodes = EmptyMap,
                     !.forest = Forest_clear],
     ret |-> Ok(Unit)]

\* Taffy::clear
clear_fn(T) ==
    [T |-> [T EXCEPT !.nodes_to_ids = EmptyMap,
                     !.ids_to_nodes = EmptyMap,
                     !.forest = Forest_clear],
     ret |-> Ok(Unit)]

\* remove that leaves the forward entry of the moved node as it was.
remove_fn_no_forward(T, node) ==
    LET found == find_node(T, node)
        id == found.val
        T1 == [T EXCEPT !.nodes_to_ids = MapRemove(@, node),
                        !.ids_to_nodes = MapRemove(@, id)]
        s == Forest_swap_remove(T1.forest, id)
        T2 == [T1 EXCEPT !.forest = s.forest]
        new == T2.ids_to_nodes[s.new_id]
    IN  IF ~IsOk(found) THEN [T |-> T, ret |-> found]
        ELSE IF ~s.moved THEN [T |-> T2, ret |-> Ok(id)]
        ELSE IF s.new_id \notin DOMAIN T2.ids_to_nodes THEN [T |-> T, ret |-> Panic]
        ELSE [T |-> [T2 EXCEPT !.ids_to_nodes = MapInsert(MapRemove(@, s.new_id), id, new)],
              ret |-> Ok(id)]

\* remove that ignores what swap_remove returns: no entry is rewritten.
remove_fn_no_move(T, node) ==
    LET found == find_node(T, node)
        id == found.val
        T1 == [T EXCEPT !.nodes_to_ids = MapRemove(@, node),
                        !.ids_to_nodes = MapRemove(@, id)]
        s == Forest_swap_remove(T1.forest, id)
    IN  IF ~IsOk(found) THEN [T |-> T, ret |-> found]
        ELSE [T |-> [T1 EXCEPT !.forest = s.forest], ret |-> Ok(id)]

\* remove that takes the moved node out of the forward map, where it should
\* enter it under its new slot.
remove_fn_drop_moved(T, node) ==
    LET found == find_node(T, node)
        id == found.val
        T1 == [T EXCEPT !.nodes_to_ids = MapRemove(@, node),
                        !.ids_to_nodes = MapRemove(@, id)]
        s == Forest_swap_remove(T1.forest, id)
        T2 == [T1 EXCEPT !.forest = s.forest]
        new == T2.ids_to_nodes[s.new_id]
    IN  IF ~IsOk(found) THEN [T |-> T, ret |-> found]
        ELSE IF ~s.moved THEN [T |-> T2, ret |-> Ok(id)]
        ELSE IF s.new_id \notin DOMAIN T2.ids_to_nodes THEN [T |-> T, ret |-> Panic]
        ELSE [T |-> [T2 EXCEPT !.nodes_to_ids = MapRemove(@, new),
                               !.ids_to_nodes = MapInsert(MapRemove(@, s.new_id), id, new)],
              ret |-> Ok(id)]

\* Taffy::remove
remove_fn(T, node) ==
    LET found == find_node(T, node)
        id == found.val
        T1 == [T EXCEPT !.nodes_to_ids = MapRemove(@, node),
                        !.ids_to_nodes = MapRemove(@, id)]
        s == Forest_swap_remove(T1.forest, id)
        T2 == [T1 EXCEPT !.forest = s.forest]
        new == T2.ids_to_nodes[s.new_id]
    IN  IF ~IsOk(found) THEN [T |-> T, ret |-> found]
        ELSE IF ~s.moved THEN [T |-> T2, ret |-> Ok(id)]
        ELSE IF s.new_id \notin DOMAIN T2.ids_to_nodes THEN [T |-> T, ret |-> Panic]
        ELSE [T |-> [T2 EXCEPT !.nodes_to_ids = MapInsert(@, new, id),
                               !.ids_to_nodes = MapInsert(MapRemove(@, s.new_id), id, new)],
              ret |-> Ok(id)]

\* Taffy::set_measure
set_measure_fn(T, node) ==
    LET found == find_node(T, node)
    IN  IF ~IsOk(found) THEN [T |-> T, ret |-> found]
        ELSE [T |-> [T EXCEPT !.forest = Forest_mark_dirty(@, found.val)],
              ret |-> Ok(Unit)]

\* Taffy::add_child
add_child_fn(T, parent, child) ==
    LET node_id == find_node(T, parent)
        child_id == find_node(T, child)
    IN  IF ~IsOk(node_id) THEN [T |-> T, ret |-> node_id]
        ELSE IF ~IsOk(child_id) THEN [T |-> T, ret |-> child_id]
        ELSE [T |-> [T EXCEPT !.forest = Forest_add_child(@, node_id.val, child_id.val)],
              ret |-> Ok(Unit)]

\* for child in &children[node_id] { parents[*child].retain(|p| *p != node_id) }
RECURSIVE RetainParents(_, _, _)
RetainParents(parents, children, node_id) ==
    IF children = <<>> THEN parents
    ELSE RetainParents([parents EXCEPT ![Head(children) + 1] = Retain(@, node_id)],
                       Tail(children), node_id)

\* set_children that appends the new children to the stored list.
set_children_fn_append(T, parent, children) ==
    LET node_id == find_node(T, parent)
        children_id == find_nodes(T, children)
        old == At(T.forest.children, node_id.val)
        detached == RetainParents(T.forest.parents, old, node_id.val)
        attached == PushParent(detached, children_id.val, node_id.val)
        forest == [T.forest EXCEPT !.parents = attached,
                                   !.children[node_id.val + 1] = @ \o children_id.val]
    IN  IF ~IsOk(node_id) THEN [T |-> T, ret |-> node_id]
        ELSE IF ~IsOk(children_id) THEN [T |-> T, ret |-> children_id]
        ELSE IF \E c \in Range(old) : c >= Len(T.forest.parents) THEN [T |-> T, ret |-> Panic]
        ELSE [T |-> [T EXCEPT !.forest = Forest_mark_dirty(forest, node_id.val)],
              ret |-> Ok(Unit)]

\* set_children that detaches the previous children as soon as the parent
\* has resolved, before the new children are resolved.
set_children_fn_eager(T, parent, children) ==
    LET node_id == find_node(T, parent)
        children_id == find_nodes(T, children)
        old == At(T.forest.children, node_id.val)
        detached == RetainParents(T.forest.parents, old, node_id.val)
        attached == PushParent(detached, children_id.val, node_id.val)
        forest == [T.forest EXCEPT !.parents = attached,
                                   !.children[node_id.val + 1] = children_id.val]
    IN  IF ~IsOk(node_id) THEN [T |-> T, ret |-> node_id]
        ELSE IF \E c \in Range(old) : c >= Len(T.forest.parents) THEN [T |-> T, ret |-> Panic]
        ELSE IF ~IsOk(children_id)
        THEN [T |-> [T EXCEPT !.forest.parents = detached], ret |-> children_id]
        ELSE [T |-> [T EXCEPT !.forest = Forest_mark_dirty(forest, node_id.val)],
              ret |-> Ok(Unit)]

\* Taffy::set_children
set_children_fn(T, parent, children) ==
    LET node_id == find_node(T, parent)
        children_id == find_nodes(T, children)
        old == At(T.forest.children, node_id.val)
        detached == RetainParents(T.forest.parents, old, node_id.val)
        attached == PushParent(detached, children_id.val, node_id.val)
        forest == [T.forest EXCEPT !.parents = attached,
                                   !.children[node_id.val + 1] = children_id.val]
    IN  IF ~IsOk(node_id) THEN [T |-> T, ret |-> node_id]
        ELSE IF ~IsOk(children_id) THEN [T |-> T, ret |-> children_id]
        ELSE IF \E c \in Range(old) : c >= Len(T.forest.parents) THEN [T |-> T, ret |-> Panic]
        ELSE [T |-> [T EXCEPT !.forest = Forest_mark_dirty(forest, node_id.val)],
              ret |-> Ok(Unit)]

\* Taffy::remove_child
remove_child_fn(T, parent, child) ==
    LET node_id == find_node(T, parent)
        child_id == find_node(T, child)
        r == Forest_remove_child(T.forest, node_id.val, child_id.val)
        prev == node_of(T, r.id)
    IN  IF ~IsOk(node_id) THEN [T |-> T, ret |-> node_id]
        ELSE IF ~IsOk(child_id) THEN [T |-> T, ret |-> child_id]
        ELSE IF r.panic \/ ~IsOk(prev) THEN [T |-> T, ret |-> Panic]
        ELSE [T |-> [T EXCEPT !.forest = r.forest], ret |-> prev]

\* remove_child_at_index that maps the parent's NodeId back, where it should
\* map the detached child's.
remove_child_at_index_fn_parent(T, parent, child_index) ==
    LET node_id == find_node(T, parent)
        child_count == Len(At(T.forest.children, node_id.val))
        r == Forest_remove_child_at_index(T.forest, node_id.val, child_index)
        prev == node_of(T, node_id.val)
    IN  IF ~IsOk(node_id) THEN [T |-> T, ret |-> InvalidParentNode(node_id.node)]
        ELSE IF child_index >= child_count
        THEN [T |-> T, ret |-> ChildIndexOutOfBounds(parent, child_index, child_count)]
        ELSE IF r.panic \/ ~IsOk(prev) THEN [T |-> T, ret |-> Panic]
        ELSE [T |-> [T EXCEPT !.forest = r.forest], ret |-> prev]

\* Taffy::remove_child_at_index
remove_child_at_index_fn(T, parent, child_index) ==
    LET node_id == find_node(T, parent)
        child_count == Len(At(T.forest.children, node_id.val))
        r == Forest_remove_child_at_index(T.forest, node_id.val, child_index)
        prev == node_of(T, r.id)
    IN  IF ~IsOk(node_id) THEN [T |-> T, ret |-> InvalidParentNode(node_id.node)]
        ELSE IF child_index >= child_count
        THEN [T |-> T, ret |-> ChildIndexOutOfBounds(parent, child_index, child_count)]
        ELSE IF r.panic \/ ~IsOk(prev) THEN [T |-> T, ret |-> Panic]
        ELSE [T |-> [T EXCEPT !.forest = r.forest], ret |-> prev]

\* replace_child_at_index that leaves the parent list of the displaced child
\* as it was.
replace_child_at_index_fn_no_detach(T, parent, child_index, new_child) ==
    LET node_id == find_node(T, parent)
        child_id == find_node(T, new_child)
        child_count == Len(At(T.forest.children, node_id.val))
        pushed == [T.forest.parents EXCEPT ![child_id.val + 1] = Append(@, node_id.val)]
        old_child == At(At(T.forest.children, node_id.val), child_index)
        forest == [T.forest EXCEPT
                      !.children[node_id.val + 1][child_index + 1] = child_id.val,
                      !.parents = pushed]
        prev == node_of(T, old_child)
    IN  IF ~IsOk(node_id) THEN [T |-> T, ret |-> InvalidParentNode(node_id.node)]
        ELSE IF ~IsOk(child_id) THEN [T |-> T, ret |-> InvalidChildNode(child_id.node)]
        ELSE IF child_index >= child_count
        THEN [T |-> T, ret |-> ChildIndexOutOfBounds(parent, child_index, child_count)]
        ELSE IF old_child >= Len(T.forest.parents) \/ ~IsOk(prev) THEN [T |-> T, ret |-> Panic]
        ELSE [T |-> [T EXCEPT !.forest = Forest_mark_dirty(forest, node_id.val)],
              ret |-> prev]

\* Taffy::replace_child_at_index
replace_child_at_index_fn(T, parent, child_index, new_child) ==
    LET node_id == find_node(T, parent)
        child_id == find_node(T, new_child)
        child_count == Len(At(T.forest.children, node_id.val))
        pushed == [T.forest.parents EXCEPT ![child_id.val + 1] = Append(@, node_id.val)]
        old_child == At(At(T.forest.children, node_id.val), child_index)
        forest == [T.forest EXCEPT
                      !.children[node_id.val + 1][child_index + 1] = child_id.val,
                      !.parents = [pushed EXCEPT ![old_child + 1] = Retain(@, node_id.val)]]
        prev == node_of(T, old_child)
    IN  IF ~IsOk(node_id) THEN [T |-> T, ret |-> InvalidParentNode(node_id.node)]
        ELSE IF ~IsOk(child_id) THEN [T |-> T, ret |-> InvalidChildNode(child_id.node)]
        ELSE IF child_index >= child_count
        THEN [T |-> T, ret |-> ChildIndexOutOfBounds(parent, child_index, child_count)]
        ELSE IF old_child >= Len(T.forest.parents) \/ ~IsOk(prev) THEN [T |-> T, ret |-> Panic]
        ELSE [T |-> [T EXCEPT !.forest = Forest_mark_dirty(forest, node_id.val)],
              ret |-> prev]

\* child_at_index that lets the index child_count through: the access to the
\* list panics.
child_at_index_fn_off_by_one(T, parent, child_index) ==
    LET id == find_node(T, parent)
        child_count == Len(At(T.forest.children, id.val))
    IN  IF ~IsOk(id) THEN [T |-> T, ret |-> InvalidParentNode(id.node)]
        ELSE IF child_index > child_count
        THEN [T |-> T, ret |-> ChildIndexOutOfBounds(parent, child_index, child_count)]
        ELSE IF child_index = child_count THEN [T |-> T, ret |-> Panic]
        ELSE [T |-> T, ret |-> node_of(T, At(At(T.forest.children, id.val), child_index))]

\* Taffy::child_at_index
child_at_index_fn(T, parent, child_index) ==
    LET id == find_node(T, parent)
        child_count == Len(At(T.forest.children, id.val))
    IN  IF ~IsOk(id) THEN [T |-> T, ret |-> InvalidParentNode(id.node)]
        ELSE IF child_index >= child_count
        THEN [T |-> T, ret |-> ChildIndexOutOfBounds(parent, child_index, child_count)]
        ELSE [T |-> T, ret |-> node_of(T, At(At(T.forest.children, id.val), child_index))]

\* Taffy::child_count
child_count_fn(T, parent) ==
    LET id == find_node(T, parent)
    IN  IF ~IsOk(id) THEN [T |-> T, ret |-> id]
        ELSE [T |-> T, ret |-> Ok(Len(At(T.forest.children, id.val)))]

\* Taffy::children
children_fn(T, parent) ==
    LET id == find_node(T, parent)
        list == At(T.forest.children, id.val)
    IN  IF ~IsOk(id) THEN [T |-> T, ret |-> id]
        ELSE IF \E k \in DOMAIN list : ~IsOk(node_of(T, list[k])) THEN [T |-> T, ret |-> Panic]
        ELSE [T |-> T, ret |-> Ok([k \in DOMAIN list |-> node_of(T, list[k]).val])]

\* Taffy::set_style
set_style_fn(T, node) ==
    LET id == find_node(T, node)
    IN  IF ~IsOk(id) THEN [T |-> T, ret |-> id]
        ELSE [T |-> [T EXCEPT !.forest = Forest_mark_dirty(@, id.val)], ret |-> Ok(Unit)]

\* Taffy::style
style_fn(T, node) ==
    LET id == find_node(T, node)
    IN  IF ~IsOk(id) THEN [T |-> T, ret |-> id] ELSE [T |-> T, ret |-> Ok(Unit)]

\* Taffy::layout
layout_fn(T, node) ==
    LET id == find_node(T, node)
    IN  IF ~IsOk(id) THEN [T |-> T, ret |-> id] ELSE [T |-> T, ret |-> Ok(Unit)]

\* mark_dirty that flags the node alone and leaves its ancestors as they are.
mark_dirty_fn_shallow(T, node) ==
    LET id == find_node(T, node)
    IN  IF ~IsOk(id) THEN [T |-> T, ret |-> id]
        ELSE [T |-> [T EXCEPT !.forest.nodes[id.val + 1].is_dirty = TRUE], ret |-> Ok(Unit)]

\* Taffy::mark_dirty
mark_dirty_fn(T, node) ==
    LET id == find_node(T, node)
    IN  IF ~IsOk(id) THEN [T |-> T, ret |-> id]
        ELSE [T |-> [T EXCEPT !.forest = Forest_mark_dirty(@, id.val)], ret |-> Ok(Unit)]

\* Taffy::dirty
dirty_fn(T, node) ==
    LET id == find_node(T, node)
    IN  IF ~IsOk(id) THEN [T |-> T, ret |-> id]
        ELSE [T |-> T, ret |-> Ok(At(T.forest.nodes, id.val).is_dirty)]

\* Taffy::compute_layout
compute_layout_fn(T, node) ==
    LET id == find_node(T, node)
        r == Forest_compute_layout(T.forest, id.val)
    IN  IF ~IsOk(id) THEN [T |-> T, ret |-> id]
        ELSE IF r.panic THEN [T |-> T, ret |-> Panic]
        ELSE [T |-> [T EXCEPT !.forest = r.forest], ret |-> Ok(Unit)]

\* ---- state machine ------------------------------------------------------
\* taffy: the instances constructed so far; op: the method called last; ret:
\* the value it returned; removed: the handles a remove has succeeded on;
\* thread: of every thread that constructs an instance of its own, where it
\* is in with_capacity (pc), the id it was given (id) and, once built, the
\* place of its instance in taffy (t).
Init ==
    /\ INSTANCE_ALLOCATOR = Allocator_new
    /\ taffy = <<>>
    /\ op = "none"
    /\ ret = [tag |-> "None"]
    /\ removed = {}
    /\ thread = [i \in Threads |-> [pc |-> "start", id |-> 0, t |-> 0]]

Running == ret.tag # "Panic"

\* The handles that resolve in instance T.
Live(T) == DOMAIN T.nodes_to_ids

\* The records of all instances, and the entries of all child lists of one.
TotalNodes == SumLen([t \in DOMAIN taffy |-> taffy[t].forest.nodes])

TotalEdges(T) == SumLen(T.forest.children)

\* The handles instance T has issued: those of the local ids its allocator
\* has handed out, while the counter has not wrapped.
Issued(T) == {h \in HandlesOf(T) : h.local < T.allocator}

\* A creation has a free id and a free record.
CanCreate(t) == taffy[t].allocator < MaxId /\ TotalNodes < MaxNodes

\* A call that adds n entries to the child lists keeps the lists of the
\* instance within MaxEdges.
CanAttach(T, n) == TotalEdges(T) + n <= MaxEdges

\* A call that adds n entries to the child list of the parent keeps the list
\* within MaxChildren and the lists of the instance within MaxEdges.
CanGrow(T, parent, n) ==
    /\ CanAttach(T, n)
    /\ IF parent \in DOMAIN T.nodes_to_ids
       THEN Len(At(T.forest.children, T.nodes_to_ids[parent])) + n <= MaxChildren
       ELSE TRUE

\* The frame of a call on instance t: r is what the method returns.
Return(t, name, r) ==
    /\ Running
    /\ taffy' = [taffy EXCEPT ![t] = r.T]
    /\ op' = name
    /\ ret' = r.ret
    /\ UNCHANGED <<INSTANCE_ALLOCATOR, thread>>

Call(t, name, r) == Return(t, name, r) /\ UNCHANGED removed

\* Taffy::new, Taffy::default
New ==
    /\ Running
    /\ Len(taffy) < MaxInstances
    /\ LET a == allocate(INSTANCE_ALLOCATOR)
       IN  /\ INSTANCE_ALLOCATOR' = a.last_id
           /\ taffy' = Append(taffy, with_capacity(a.id))
           /\ op' = "new"
           /\ ret' = [tag |-> "Taffy", id |-> a.id]
    /\ UNCHANGED <<removed, thread>>

\* Taffy::with_capacity on thread i, first step: the atomic fetch_add on the
\* process-wide counter.
with_capacity_allocate(i) ==
    /\ Running
    /\ thread[i].pc = "start"
    /\ LET a == allocate(INSTANCE_ALLOCATOR)
       IN  /\ INSTANCE_ALLOCATOR' = a.last_id
           /\ thread' = [thread EXCEPT ![i] = [pc |-> "allocated", id |-> a.id, t |-> 0]]
    /\ UNCHANGED <<taffy, op, ret, removed>>

\* Taffy::with_capacity on thread i, the rest: the instance is built around
\* the id and returned to the thread.
with_capacity_return(i) ==
    /\ Running
    /\ thread[i].pc = "allocated"
    /\ taffy' = Append(taffy, with_capacity(thread[i].id))
    /\ thread' = [thread EXCEPT ![i] = [pc |-> "built", id |-> thread[i].id,
                                         t |-> Len(taffy) + 1]]
    /\ op' = "new"
    /\ ret' = [tag |-> "Taffy", id |-> thread[i].id]
    /\ UNCHANGED <<INSTANCE_ALLOCATOR, removed>>

new_leaf(t) == Call(t, "new_leaf", new_leaf_fn(taffy[t]))

new_with_children(t, children) ==
    Call(t, "new_with_children", new_with_children_fn(taffy[t], children))

clear(t) == Call(t, "clear", clear_fn(taffy[t]))

\* In ret a usize, a Vec and a bool are held under a field of their type, so
\* that any two values ret takes can be compared.
remove(t, node) ==
    LET r == remove_fn(taffy[t], node)
    IN  /\ Return(t, "remove",
                  [r EXCEPT !.ret = IF IsOk(@) THEN Ok([usize |-> @.val]) ELSE @])
        /\ removed' = IF IsOk(r.ret) THEN removed \cup {node} ELSE removed

set_measure(t, node) == Call(t, "set_measure", set_measure_fn(taffy[t], node))

add_child(t, parent, child) == Call(t, "add_child", add_child_fn(taffy[t], parent, child))

set_children(t, parent, children) ==
    /\ IF parent \in DOMAIN taffy[t].nodes_to_ids
       THEN TotalEdges(taffy[t]) + Len(children)
               - Len(At(taffy[t].forest.children, taffy[t].nodes_to_ids[parent])) <= MaxEdges
       ELSE TRUE
    /\ Call(t, "set_children", set_children_fn(taffy[t], parent, children))

remove_child(t, parent, child) == Call(t, "remove_child", remove_child_fn(taffy[t], parent, child))

remove_child_at_index(t, parent, child_index) ==
    Call(t, "remove_child_at_index", remove_child_at_index_fn(taffy[t], parent, child_index))

replace_child_at_index(t, parent, child_index, new_child) ==
    Call(t, "replace_child_at_index", replace_child_at_index_fn(taffy[t], parent, child_index, new_child))

child_at_index(t, parent, child_index) ==
    Call(t, "child_at_index", child_at_index_fn(taffy[t], parent, child_index))

child_count(t, parent) ==
    LET r == child_count_fn(taffy[t], parent)
    IN  Call(t, "child_count",
             [r EXCEPT !.ret = IF IsOk(@) THEN Ok([usize |-> @.val]) ELSE @])

children(t, parent) ==
    LET r == children_fn(taffy[t], parent)
    IN  Call(t, "children",
             [r EXCEPT !.ret = IF IsOk(@) THEN Ok([vec |-> @.val]) ELSE @])

set_style(t, node) == Call(t, "set_style", set_style_fn(taffy[t], node))

style(t, node) == Call(t, "style", style_fn(taffy[t], node))

layout(t, node) == Call(t, "layout", layout_fn(taffy[t], node))

mark_dirty(t, node) == Call(t, "mark_dirty", mark_dirty_fn(taffy[t], node))

dirty(t, node) ==
    LET r == dirty_fn(taffy[t], node)
    IN  Call(t, "dirty",
             [r EXCEPT !.ret = IF IsOk(@) THEN Ok([bool |-> @.val]) ELSE @])

compute_layout(t, node) == Call(t, "compute_layout", compute_layout_fn(taffy[t], node))

\* The handle life cycle: instances are constructed, nodes are created,
\* removed and cleared, and handles are looked up.
Next ==
    \/ New
    \/ \E t \in Instances : CanCreate(t) /\ new_leaf(t)
    \/ \E t \in Instances, cs \in ChildLists :
          CanCreate(t) /\ CanAttach(taffy[t], Len(cs)) /\ new_with_children(t, cs)
    \/ \E t \in Instances : clear(t)
    \/ \E t \in Instances, n \in Node : remove(t, n)
    \/ \E t \in Instances, n \in Node : style(t, n)

Spec == Init /\ [][Next]_vars

\* The structure of one tree: nodes are created and their edges and dirty
\* flags are changed and read; no node is removed.
TreeNext ==
    \/ New /\ taffy = <<>>
    \/ \E t \in Instances : CanCreate(t) /\ new_leaf(t)
    \/ \E t \in Instances : \E cs \in ChildListsOf(HandlesOf(taffy[t])) :
          CanCreate(t) /\ CanAttach(taffy[t], Len(cs)) /\ new_with_children(t, cs)
    \/ \E t \in Instances : \E p, c \in HandlesOf(taffy[t]) :
          CanGrow(taffy[t], p, 1) /\ add_child(t, p, c)
    \/ \E t \in Instances : \E p \in HandlesOf(taffy[t]) :
          \E cs \in ChildListsOf(HandlesOf(taffy[t])) : set_children(t, p, cs)
    \/ \E t \in Instances : \E p, c \in HandlesOf(taffy[t]) : remove_child(t, p, c)
    \/ \E t \in Instances : \E p \in HandlesOf(taffy[t]) : \E k \in ChildIndexes :
          remove_child_at_index(t, p, k)
    \/ \E t \in Instances : \E p, c \in HandlesOf(taffy[t]) : \E k \in ChildIndexes :
          replace_child_at_index(t, p, k, c)
    \/ \E t \in Instances : \E p \in HandlesOf(taffy[t]) : \E k \in ChildIndexes :
          child_at_index(t, p, k)
    \/ \E t \in Instances : \E p \in HandlesOf(taffy[t]) : children(t, p)
    \/ \E t \in Instances : \E p \in HandlesOf(taffy[t]) : child_count(t, p)
    \/ \E t \in Instances : \E n \in HandlesOf(taffy[t]) : layout(t, n)
    \/ \E t \in Instances : \E n \in HandlesOf(taffy[t]) : set_measure(t, n)
    \/ \E t \in Instances : \E n \in HandlesOf(taffy[t]) : set_style(t, n)
    \/ \E t \in Instances : \E n \in HandlesOf(taffy[t]) : mark_dirty(t, n)
    \/ \E t \in Instances : \E n \in HandlesOf(taffy[t]) : dirty(t, n)
    \/ \E t \in Instances : \E n \in HandlesOf(taffy[t]) : compute_layout(t, n)

SpecTree == Init /\ [][TreeNext]_vars

\* The graphs of one instance that sharing makes: up to DagNodes nodes and
\* DagEdges edges among live nodes, a node under several parents and an
\* ancestor along several paths included, with the dirty flags set by
\* mark_dirty and cleared by compute_layout.
DagCanCreate(T, n) ==
    /\ Len(T.forest.nodes) < DagNodes
    /\ T.allocator + 1 < 2 ^ IdBits
    /\ TotalEdges(T) + n <= DagEdges

DagNext ==
    \/ New /\ taffy = <<>>
    \/ \E t \in Instances : DagCanCreate(taffy[t], 0) /\ new_leaf(t)
    \/ \E t \in Instances : \E cs \in ChildListsOf(Live(taffy[t])) :
          DagCanCreate(taffy[t], Len(cs)) /\ new_with_children(t, cs)
    \/ \E t \in Instances : \E p, c \in Live(taffy[t]) :
          /\ TotalEdges(taffy[t]) < DagEdges
          /\ Len(At(taffy[t].forest.children, taffy[t].nodes_to_ids[p])) < MaxChildren
          /\ add_child(t, p, c)
    \/ \E t \in Instances : \E n \in Live(taffy[t]) : mark_dirty(t, n)
    \/ \E t \in Instances : \E n \in Live(taffy[t]) : compute_layout(t, n)

SpecDag == Init /\ [][DagNext]_vars

\* Threads that construct an instance each, concurrently, and create leaves
\* in the instance they built; the steps of the threads interleave.
ThreadNext ==
    \/ \E i \in Threads : with_capacity_allocate(i)
    \/ \E i \in Threads : with_capacity_return(i)
    \/ \E i \in Threads :
          thread[i].pc = "built" /\ CanCreate(thread[i].t) /\ new_leaf(thread[i].t)

SpecThreads == Init /\ [][ThreadNext]_vars

\* One instance that creates and removes leaves for as long as the arena has
\* room: the local-id counter is not kept below its maximum.
ExhaustNext ==
    \/ New /\ taffy = <<>>
    \/ \E t \in Instances : TotalNodes < MaxNodes /\ new_leaf(t)
    \/ \E t \in Instances : \E n \in Live(taffy[t]) : remove(t, n)

SpecExhaust == Init /\ [][ExhaustNext]_vars

\* ---- properties ---------------------------------------------------------
Slots(T) == 0 .. (Len(T.forest.nodes) - 1)

\* The two maps of an instance are inverses of each other, and the slots
\* that resolve back are the slots of the arena.
Bijection(T) ==
    /\ \A h \in DOMAIN T.nodes_to_ids :
          /\ T.nodes_to_ids[h] \in DOMAIN T.ids_to_nodes
          /\ T.ids_to_nodes[T.nodes_to_ids[h]] = h
    /\ \A i \in DOMAIN T.ids_to_nodes :
          /\ T.ids_to_nodes[i] \in DOMAIN T.nodes_to_ids
          /\ T.nodes_to_ids[T.ids_to_nodes[i]] = i
    /\ DOMAIN T.ids_to_nodes = Slots(T)

\* C1: after every sequence of new_leaf, new_with_children, remove and clear
\* the forward map and the reverse map of every instance are exact inverses:
\* h maps to i iff i maps to h, and every slot of the arena maps back to one
\* live handle.
C1_Bijection == \A t \in Instances : Bijection(taffy[t])

\* A remove has just moved the record of the last slot into the slot it
\* returns, in the only instance, and another node stayed where it was.
C1_Witness ==
    /\ op = "remove" /\ IsOk(ret)
    /\ Len(taffy) = 1
    /\ Cardinality(Live(taffy[1])) = 2
    /\ \E h \in Live(taffy[1]) : taffy[1].nodes_to_ids[h] = ret.val.usize /\ h.local = 2

\* Every method of instance T that takes the handle h fails on it, whatever
\* the other handles of the call (live handles of T, or h again): with
\* InvalidNode(h) or InvalidParentNode(h) where h is the first handle to be
\* resolved, with an unresolved-handle error of the method where h is a child.
Rejects(T, h) ==
    LET others == Live(T) \cup {h}
        lists == ChildListsOf(others)
        refused == [T |-> T, ret |-> InvalidNode(h)]
    IN  /\ style_fn(T, h) = refused
        /\ layout_fn(T, h) = refused
        /\ dirty_fn(T, h) = refused
        /\ child_count_fn(T, h) = refused
        /\ children_fn(T, h) = refused
        /\ set_style_fn(T, h) = refused
        /\ set_measure_fn(T, h) = refused
        /\ mark_dirty_fn(T, h) = refused
        /\ compute_layout_fn(T, h) = refused
        /\ remove_fn(T, h) = refused
        /\ \A n \in others :
              /\ add_child_fn(T, h, n).ret = InvalidNode(h)
              /\ add_child_fn(T, n, h).ret = InvalidNode(h)
              /\ remove_child_fn(T, h, n).ret = InvalidNode(h)
              /\ remove_child_fn(T, n, h).ret = InvalidNode(h)
        /\ \A cs \in lists :
              /\ set_children_fn(T, h, cs).ret = InvalidNode(h)
              /\ h \in Range(cs) =>
                    /\ new_with_children_fn(T, cs).ret = InvalidNode(h)
                    /\ \A n \in others : set_children_fn(T, n, cs).ret = InvalidNode(h)
        /\ \A k \in ChildIndexes :
              /\ remove_child_at_index_fn(T, h, k).ret = InvalidParentNode(h)
              /\ child_at_index_fn(T, h, k).ret = InvalidParentNode(h)
              /\ \A n \in others :
                    /\ replace_child_at_index_fn(T, h, k, n).ret = InvalidParentNode(h)
                    /\ replace_child_at_index_fn(T, n, k, h).ret
                          \in {InvalidParentNode(h), InvalidChildNode(h)}

Creations == {"new_leaf", "new_with_children"}

\* C2: once remove(h) has succeeded, h never resolves again: every method of
\* its instance that takes h fails with InvalidNode (wrapped in InvalidChild
\* by the indexed child methods), whatever was created since, and no
\* creation returns h again.
C2_NoReuse ==
    \A h \in removed :
        /\ \A t \in Instances :
              taffy[t].id = h.instance =>
                  h \notin Live(taffy[t]) /\ Rejects(taffy[t], h)
        /\ ~(op \in Creations /\ IsOk(ret) /\ ret.val = h)

\* The only node ever created was removed, and the creation that has just
\* returned put a new node into its slot under a new handle.
C2_Witness ==
    /\ op = "new_leaf" /\ IsOk(ret)
    /\ \E t \in Instances, h \in removed :
          /\ removed = {h} /\ h.instance = taffy[t].id
          /\ taffy[t].allocator = 2
          /\ Live(taffy[t]) = {ret.val}
          /\ taffy[t].nodes_to_ids[ret.val] = 0

\* C3: a handle of instance A fails on every method of another instance B
\* with InvalidNode (or the InvalidChild variant that wraps it), whatever B
\* has created or removed.
C3_Isolation ==
    \A a, b \in Instances :
        a # b => \A h \in HandlesOf(taffy[a]) : Rejects(taffy[b], h)

\* style has just failed with InvalidNode on a handle that is live in one
\* instance, while another instance has a live handle of the same local id.
C3_Witness ==
    /\ op = "style" /\ ret.tag = "InvalidNode"
    /\ \E a, b \in Instances :
          /\ a # b
          /\ ret.node \in Live(taffy[a])
          /\ \E g \in Live(taffy[b]) : g.local = ret.node.local

\* C4: a new_with_children that fails with InvalidNode leaves the instance as
\* it was: both maps, the arena and the local-id counter.
C4_FailedCreationChangesNothing ==
    [][op' = "new_with_children" /\ ~IsOk(ret') =>
          ret'.tag = "InvalidNode" /\ taffy' = taffy]_vars

\* c is a child of p iff p is a parent of c, for all slots p and c of T.
Symmetric(T) ==
    \A p, c \in Slots(T) :
        c \in Range(At(T.forest.children, p)) <=> p \in Range(At(T.forest.parents, c))

\* C5: in every state reached by new_with_children, add_child, set_children,
\* remove_child, remove_child_at_index and replace_child_at_index, c is in
\* children(p) iff p is in parents(c), for all live nodes p and c.
C5_ParentChildSymmetry == \A t \in Instances : Symmetric(taffy[t])

\* C6: a successful remove(x) moves the node of the last slot, y, into the
\* slot of x when x was not in the last slot: y stays live and resolves to
\* that slot, and no handle but x and y changes the slot it resolves to; when
\* x was in the last slot, no handle but x changes.
C6_CompactionKeepsHandles ==
    \A t \in Instances : \A x \in Live(taffy[t]) :
        LET T == taffy[t]
            r == remove_fn(T, x)
            U == r.T
            i == T.nodes_to_ids[x]
            last == Len(T.forest.nodes) - 1
            moved == {y \in Live(T) : T.nodes_to_ids[y] = last /\ i # last}
        IN  /\ r.ret = Ok(i)
            /\ x \notin Live(U)
            /\ \A y \in moved : y \in Live(U) /\ U.nodes_to_ids[y] = i
            /\ i # last => moved # {}
            /\ \A h \in Live(T) \ ({x} \cup moved) :
                  h \in Live(U) /\ U.nodes_to_ids[h] = T.nodes_to_ids[h]

\* Of three nodes of the only instance the first was removed: the last one
\* sits in its slot and the middle one stayed.
C6_Witness ==
    /\ op = "remove" /\ IsOk(ret) /\ ret.val.usize = 0
    /\ Len(taffy) = 1
    /\ \E y, z \in Live(taffy[1]) :
          /\ y.local = 2 /\ taffy[1].nodes_to_ids[y] = 0
          /\ z.local = 1 /\ taffy[1].nodes_to_ids[z] = 1

\* What children, child_count and child_at_index return for the parent is
\* the list cs: the same handles, in the same order.
ReadsBack(T, parent, cs) ==
    /\ children_fn(T, parent).ret = Ok(cs)
    /\ child_count_fn(T, parent).ret = Ok(Len(cs))
    /\ \A k \in 0 .. (Len(cs) - 1) : child_at_index_fn(T, parent, k).ret = Ok(cs[k + 1])

\* C7: right after a successful new_with_children(style, cs) or
\* set_children(p, cs), children(parent) is exactly cs, child_count(parent)
\* is its length and child_at_index(parent, k) is cs[k].
C7_OrderPreserved ==
    \A t \in Instances :
        LET T == taffy[t]
        IN  \A cs \in ChildListsOf(Live(T)) :
                /\ LET r == new_with_children_fn(T, cs)
                   IN  IsOk(r.ret) /\ ReadsBack(r.T, r.ret.val, cs)
                /\ \A p \in Live(T) :
                      LET r == set_children_fn(T, p, cs)
                      IN  IsOk(r.ret) => ReadsBack(r.T, p, cs)

\* set_children has just given a parent two different children, the one
\* created later first.
C7_Witness ==
    /\ op = "set_children" /\ IsOk(ret)
    /\ \E t \in Instances : \E p \in Live(taffy[t]) :
          LET cs == children_fn(taffy[t], p).ret
          IN  IsOk(cs) /\ Len(cs.val) = 2 /\ cs.val[1].local > cs.val[2].local

\* C8: with an index k >= n on a valid parent p of n children,
\* remove_child_at_index, replace_child_at_index (with a valid new child) and
\* child_at_index return ChildIndexOutOfBounds{p, k, n} and change nothing.
C8_BoundsChecked ==
    \A t \in Instances : \A p \in Live(taffy[t]) :
        LET T == taffy[t]
            n == Len(At(T.forest.children, T.nodes_to_ids[p]))
        IN  \A k \in ChildIndexes :
                k >= n =>
                    LET err == [T |-> T, ret |-> ChildIndexOutOfBounds(p, k, n)]
                    IN  /\ remove_child_at_index_fn(T, p, k) = err
                        /\ child_at_index_fn(T, p, k) = err
                        /\ \A c \in Live(T) : replace_child_at_index_fn(T, p, k, c) = err

\* replace_child_at_index has just been refused with an index beyond the
\* children of a parent that has some, and which is not dirty.
C8_Witness ==
    /\ op = "replace_child_at_index" /\ ret.tag = "ChildIndexOutOfBounds"
    /\ ret.child_count >= 1 /\ ret.child_index > ret.child_count
    /\ \E t \in Instances :
          /\ ret.parent \in Live(taffy[t])
          /\ dirty_fn(taffy[t], ret.parent).ret = Ok(FALSE)

\* C9: a successful replace_child_at_index(p, k, c) returns the handle that
\* was at position k; afterwards position k holds c, the other positions and
\* the count are as before, the displaced node does not list p as a parent,
\* and p is dirty.
C9_ReplaceChild ==
    \A t \in Instances :
        LET T == taffy[t]
        IN  \A p \in Live(T), c \in Live(T), k \in ChildIndexes :
                LET r == replace_child_at_index_fn(T, p, k, c)
                    U == r.T
                    node_id == T.nodes_to_ids[p]
                    displaced == T.nodes_to_ids[r.ret.val]
                IN  IsOk(r.ret) =>
                        /\ r.ret = child_at_index_fn(T, p, k).ret
                        /\ child_at_index_fn(U, p, k).ret = Ok(c)
                        /\ child_count_fn(U, p).ret = child_count_fn(T, p).ret
                        /\ \A j \in ChildIndexes \ {k} :
                              child_at_index_fn(U, p, j).ret = child_at_index_fn(T, p, j).ret
                        /\ node_id \notin Range(At(U.forest.parents, displaced))
                        /\ dirty_fn(U, p).ret = Ok(TRUE)

\* replace_child_at_index has just displaced the second of two children: the
\* handle it returned is no child of the parent any more.
C9_Witness ==
    /\ op = "replace_child_at_index" /\ IsOk(ret)
    /\ \E t \in Instances : \E p \in Live(taffy[t]) :
          LET cs == children_fn(taffy[t], p).ret
          IN  /\ IsOk(cs) /\ Len(cs.val) = 2
              /\ ret.val \notin Range(cs.val)
              /\ cs.val[1] # p /\ cs.val[2] # p

\* C10: a successful remove(h) makes h, and no other handle, unresolvable:
\* the live handles afterwards are those before without h, the children and
\* the former parents of h among them.
C10_RemoveInvalidatesOne ==
    \A t \in Instances : \A h \in Live(taffy[t]) :
        LET T == taffy[t]
            r == remove_fn(T, h)
        IN  /\ IsOk(r.ret)
            /\ Live(r.T) = Live(T) \ {h}
            /\ Cardinality(Live(r.T)) = Cardinality(Live(T)) - 1
            /\ \A c \in Live(T) :
                  (\/ T.nodes_to_ids[c] \in Range(At(T.forest.children, T.nodes_to_ids[h]))
                   \/ T.nodes_to_ids[c] \in Range(At(T.forest.parents, T.nodes_to_ids[h])))
                  /\ c # h
                  => IsOk(find_node(r.T, c))

\* Of a parent and its child, the only nodes ever created, one was removed:
\* the other is still live.
C10_Witness ==
    /\ op = "remove" /\ IsOk(ret)
    /\ \E t \in Instances :
          /\ taffy[t].allocator = 2
          /\ Cardinality(Live(taffy[t])) = 1
          /\ Cardinality(removed) = 1
          /\ \E h \in Live(taffy[t]) :
                \/ h.local = 1 /\ At(taffy[t].forest.children, taffy[t].nodes_to_ids[h]) # <<>>
                \/ h.local = 0 /\ \E r \in removed : r.local = 1 /\ r.instance = h.instance

\* C11: a clear leaves no handle of the instance live, every handle the
\* instance had issued fails on every method afterwards and the local-id
\* counter is as before; over every step the issued handles of an instance
\* only grow, a handle that does not resolve never resolves again, and a
\* creation returns a handle that was not issued before it: the handles
\* created after a clear differ from all those issued before it.
C11_ClearInvalidatesAll ==
    [][/\ \A t \in Instances :
             LET T == taffy[t]
                 U == taffy'[t]
             IN  /\ Issued(T) \subseteq Issued(U)
                 /\ \A h \in Issued(T) \ Live(T) : h \notin Live(U)
                 /\ op' \in Creations /\ IsOk(ret') => ret'.val \notin Issued(T)
       /\ op' = "clear" =>
             \E t \in Instances :
                 LET T == taffy[t]
                     U == taffy'[t]
                 IN  /\ taffy' = [taffy EXCEPT ![t] = U]
                     /\ Live(U) = {}
                     /\ U.allocator = T.allocator
                     /\ \A h \in Issued(T) : Rejects(U, h)]_vars

\* The first creation after a clear: nothing was removed, the allocator has
\* handed out three ids, and the handle just returned, of the third id, is
\* the only live one and sits in slot 0.
C11_Witness ==
    /\ op = "new_leaf" /\ IsOk(ret) /\ removed = {}
    /\ \E t \in Instances :
          /\ taffy[t].allocator = 3
          /\ Live(taffy[t]) = {ret.val}
          /\ ret.val.local = 2
          /\ taffy[t].nodes_to_ids[ret.val] = 0

HandleErrors == {"InvalidNode", "InvalidParentNode", "InvalidChildNode"}

\* The call that returned r on instance T, with the handles given, failed on
\* a handle if one of them does not resolve, and if it failed on a handle
\* both maps and the forest (child lists, parent lists, dirty flags) are as
\* in T.
ResolvesFirst(T, handles, r) ==
    /\ (\E h \in handles : h \notin Live(T)) => r.ret.tag \in HandleErrors
    /\ r.ret.tag \in HandleErrors =>
          /\ r.T.nodes_to_ids = T.nodes_to_ids
          /\ r.T.ids_to_nodes = T.ids_to_nodes
          /\ r.T.forest = T.forest

\* C12: add_child, set_children, remove_child, remove_child_at_index,
\* replace_child_at_index, set_style, set_measure, mark_dirty, remove and
\* compute_layout resolve their handles before they change anything: a call
\* with a handle that does not resolve returns InvalidNode, InvalidParentNode
\* or InvalidChildNode, and a call that returns one of these leaves both
\* maps, all child lists, all parent lists and all dirty flags unchanged.
C12_ResolveBeforeChange ==
    \A t \in Instances :
        LET T == taffy[t]
            H == HandlesOf(T)
        IN  /\ \A n \in H :
                  /\ ResolvesFirst(T, {n}, set_style_fn(T, n))
                  /\ ResolvesFirst(T, {n}, set_measure_fn(T, n))
                  /\ ResolvesFirst(T, {n}, mark_dirty_fn(T, n))
                  /\ ResolvesFirst(T, {n}, remove_fn(T, n))
                  /\ ResolvesFirst(T, {n}, compute_layout_fn(T, n))
                  /\ \A k \in ChildIndexes :
                        ResolvesFirst(T, {n}, remove_child_at_index_fn(T, n, k))
            /\ \A p \in H : \A c \in H :
                  /\ ResolvesFirst(T, {p, c}, add_child_fn(T, p, c))
                  /\ ResolvesFirst(T, {p, c}, remove_child_fn(T, p, c))
                  /\ \A k \in ChildIndexes :
                        ResolvesFirst(T, {p, c}, replace_child_at_index_fn(T, p, k, c))
            /\ \A p \in H : \A cs \in ChildListsOf(H) :
                  ResolvesFirst(T, {p} \cup Range(cs), set_children_fn(T, p, cs))

\* set_children has just failed on a handle that does not resolve, in an
\* instance where a parent has a child and is not dirty.
C12_Witness ==
    /\ op = "set_children" /\ ret.tag = "InvalidNode"
    /\ \E t \in Instances :
          /\ ret.node \in HandlesOf(taffy[t]) \ Live(taffy[t])
          /\ \E p \in Live(taffy[t]) :
                /\ child_count_fn(taffy[t], p).ret = Ok(1)
                /\ dirty_fn(taffy[t], p).ret = Ok(FALSE)

\* Slot a is reached from slot n by following parent entries, depth of them
\* at most.
RECURSIVE AncestorWithin(_, _, _, _)
AncestorWithin(parents, a, n, depth) ==
    /\ depth > 0
    /\ \E p \in Range(At(parents, n)) :
          p = a \/ AncestorWithin(parents, a, p, depth - 1)

\* Handle a denotes an ancestor of the node of handle h in instance T.
IsAncestor(T, a, h) ==
    AncestorWithin(T.forest.parents, T.nodes_to_ids[a], T.nodes_to_ids[h],
                   Len(T.forest.parents))

C14_UniqueInstanceIds ==
    /\ \A i, j \in Threads :
          i # j /\ thread[i].pc # "start" /\ thread[j].pc # "start"
              => thread[i].id # thread[j].id
    /\ \A a, b \in Instances :
          a # b => /\ taffy[a].id # taffy[b].id
                   /\ Live(taffy[a]) \cap Live(taffy[b]) = {}

\* Three threads have built their instances, the one given the last id
\* first and the one given the first id last, and each of the three
\* instances has a leaf of local id 0.
C14_Witness ==
    /\ \A i \in Threads : thread[i].pc = "built"
    /\ Len(taffy) = 3
    /\ taffy[1].id = 2 /\ taffy[3].id = 0
    /\ \A a \in Instances : \E h \in Live(taffy[a]) : h.local = 0

\* The list cs without its entry at position k (from 1).
Without(cs, k) == [j \in 1 .. (Len(cs) - 1) |-> IF j < k THEN cs[j] ELSE cs[j + 1]]

\* The call that returned r on T took the entry at position k (from 1) out
\* of the children cs of parent p and returned it: the other children of p
\* are in the order they had, the children of every other parent and the
\* live handles are as before, and the child still resolves.
Detached(T, p, cs, k, r) ==
    /\ r.ret = Ok(cs[k])
    /\ children_fn(r.T, p).ret = Ok(Without(cs, k))
    /\ \A q \in Live(T) \ {p} : children_fn(r.T, q).ret = children_fn(T, q).ret
    /\ r.T.nodes_to_ids = T.nodes_to_ids
    /\ r.T.ids_to_nodes = T.ids_to_nodes
    /\ IsOk(find_node(r.T, cs[k]))
    /\ IsOk(style_fn(r.T, cs[k]).ret)

C16_ExhaustionIsFatal ==
    [][\A t \in Instances :
          /\ taffy'[t].allocator >= taffy[t].allocator
          /\ op' \in Creations /\ IsOk(ret') /\ ret'.val.instance = taffy[t].id
                => ret'.val \notin Live(taffy[t]) \cup removed]_vars

\* No slot of T is reached from itself by following child entries.
Acyclic(T) ==
    \A n \in Slots(T) :
        ~AncestorWithin(T.forest.children, n, n, Len(T.forest.children))

\* C17: in every state reached by new_with_children, add_child, set_children
\* and replace_child_at_index, calls such as add_child(a, a) included, no
\* node is reachable from itself by following child edges.
C17_Acyclic ==
    IsOk(ret) => \A t \in Instances : Acyclic(taffy[t])

\* C18: on every parent graph the instance reaches, a diamond where an
\* ancestor is reached along several parent paths and a cycle included,
\* mark_dirty(h) comes to an end and returns Ok, and the walk over the
\* parent lists processes no node twice.
C18_MarkDirtyTerminates ==
    \A t \in Instances : \A h \in Live(taffy[t]) :
        LET T == taffy[t]
            run == Forest_mark_dirty_run(T.forest.parents, T.nodes_to_ids[h])
        IN  /\ run.done
            /\ Len(run.order) <= Len(T.forest.nodes)
            /\ \A i, j \in DOMAIN run.order : i # j => run.order[i] # run.order[j]
            /\ mark_dirty_fn(T, h).ret = Ok(Unit)

\* mark_dirty has just returned on the bottom node of a diamond: its walk
\* went over the node, its two parents and the parent they share, four
\* nodes in all, and the four are dirty.
C18_Witness ==
    /\ op = "mark_dirty" /\ IsOk(ret)
    /\ \E t \in Instances : \E n, p, q, g \in Live(taffy[t]) :
          LET T == taffy[t]
              id(h) == T.nodes_to_ids[h]
              run == Forest_mark_dirty_run(T.forest.parents, id(n))
          IN  /\ p # q
              /\ At(T.forest.parents, id(n)) = <<id(p), id(q)>>
              /\ At(T.forest.parents, id(p)) = <<id(g)>>
              /\ At(T.forest.parents, id(q)) = <<id(g)>>
              /\ At(T.forest.parents, id(g)) = <<>>
              /\ run.done
              /\ run.order = <<id(n), id(p), id(q), id(g)>>
              /\ \A h \in {n, p, q, g} : dirty_fn(T, h).ret = Ok(TRUE)

\* C19: no call leaves a dangling edge.  After every call, every index in
\* the child list of a live node has an entry in ids_to_nodes, so that
\* children and child_at_index on the node look up no missing key; and
\* after remove, clear and the creations, which attach nothing to a node
\* that exists, children of a node that stays live returns no handle it did
\* not return before the call.
C19_NoDanglingEdges ==
    [][\A t \in Instances :
          LET T == taffy[t]
              U == taffy'[t]
          IN  \A p \in Live(U) :
                  /\ \A c \in Range(At(U.forest.children, U.nodes_to_ids[p])) :
                        c \in DOMAIN U.ids_to_nodes
                  /\ IsOk(children_fn(U, p).ret)
                  /\ \A k \in ChildIndexes : child_at_index_fn(U, p, k).ret # Panic
                  /\ p \in Live(T) /\ IsOk(children_fn(T, p).ret)
                        /\ op' \in Creations \cup {"remove", "clear"}
                        => Range(children_fn(U, p).ret.val)
                              \subseteq Range(children_fn(T, p).ret.val)]_vars

====
